---- MODULE Spec2Model ----
(***************************************************************************)
(* Model of the voice store and engine facade of the Voice AI Agent        *)
(* (src/voice_agent/tts_engine.py).  A process holds one TTSEngine; the     *)
(* voices directory is on disk and outlives the process, so engines of     *)
(* both model types come to work on the same directory.  Strings are       *)
(* sequences of one-character strings so that lower(), startswith(),       *)
(* split('.') and Path.stem are computed.                                  *)
(***************************************************************************)
EXTENDS Integers, Sequences, FiniteSets, TLC

VARIABLES engine, voices, last, promoted, recloned, lastDefault,
          files, returned, resp, clones, writer

vars == <<engine, voices, last, promoted, recloned, lastDefault,
          files, returned, resp, clones, writer>>

\* what the calls on the voice store leave alone: the output files, the paths
\* synthesize has returned, and the record of the last request
requestVars == <<files, returned, resp>>

\* what a call that runs alone leaves alone: the clone operations under way
\* in other processes and the record of who wrote which file last
raceVars == <<clones, writer>>

(***************************************************************************)
(* Bounds                                                                  *)
(***************************************************************************)
\* largest number of directories the voices directory may hold
MaxDirs == 2

(***************************************************************************)
(* Optional values: None is <<>>, Some(x) is <<x>>                         *)
(***************************************************************************)
None == <<>>
Some(x) == <<x>>
IsNone(o) == o = <<>>
IsSome(o) == o # <<>>
Get(o) == o[1]

\* a value computed once and used under a name: r = x, then F(r)
With(x, F(_)) == F(x)

(***************************************************************************)
(* String functions                                                        *)
(***************************************************************************)
UpperChars == <<"A","B","C","D","E","F","G","H","I","J","K","L","M",
                "N","O","P","Q","R","S","T","U","V","W","X","Y","Z">>
LowerChars == <<"a","b","c","d","e","f","g","h","i","j","k","l","m",
                "n","o","p","q","r","s","t","u","v","w","x","y","z">>

LowerChar(c) ==
    IF \E i \in DOMAIN UpperChars : UpperChars[i] = c
    THEN LowerChars[CHOOSE i \in DOMAIN UpperChars : UpperChars[i] = c]
    ELSE c

\* str.lower()
Lower(s) == [i \in DOMAIN s |-> LowerChar(s[i])]

\* str.startswith(p)
StartsWith(s, p) ==
    /\ Len(s) >= Len(p)
    /\ SubSeq(s, 1, Len(p)) = p

\* positions of character c in s
Positions(s, c) == {i \in DOMAIN s : s[i] = c}

Max(S) == CHOOSE x \in S : \A y \in S : y <= x
Min(S) == CHOOSE x \in S : \A y \in S : x <= y

\* os.path.basename(p): what follows the last '/'
Basename(p) ==
    IF Positions(p, "/") = {} THEN p
    ELSE SubSeq(p, Max(Positions(p, "/")) + 1, Len(p))

\* s.split('.')[0]: what precedes the first '.'
SplitDotFirst(s) ==
    IF Positions(s, ".") = {} THEN s
    ELSE SubSeq(s, 1, Min(Positions(s, ".")) - 1)

\* pathlib.Path(p).stem: the final component without its last suffix
PathStem(p) ==
    LET name == Basename(p)
        dots == Positions(name, ".")
    IN  IF dots = {} THEN name
        ELSE LET i == Max(dots)
             IN  IF 1 < i /\ i < Len(name) THEN SubSeq(name, 1, i - 1) ELSE name

(***************************************************************************)
(* Names                                                                   *)
(***************************************************************************)
kokoro == <<"k","o","k","o","r","o">>
zonos == <<"z","o","n","o","s">>
kokoro_prefix == <<"k","o","k","o","r","o","_">>
zonos_prefix == <<"z","o","n","o","s","_">>
zonos_default == <<"z","o","n","o","s","_","d","e","f","a","u","l","t">>
default_preset == <<"d","e","f","a","u","l","t">>
af_heart == <<"a","f","_","h","e","a","r","t">>
af_woh == <<"a","f","_","w","o","h">>
am_standard == <<"a","m","_","s","t","a","n","d","a","r","d">>

\* the preset list of src/voice_agent/tts_engine.py:88
KokoroPresets == <<af_heart, af_woh, am_standard>>

\* model_type arguments tried at construction
ModelTypes == {kokoro, zonos,
               <<"K","o","k","o","r","o">>, <<"Z","O","N","O","S">>,
               <<"b","a","r","k">>}

\* audio sample paths handed to clone_voice and synthesize
bob_wav == <<"b","o","b",".","w","a","v">>
bob_v2_wav == <<"i","n","/","b","o","b",".","v","2",".","w","a","v">>
default_wav == <<"d","e","f","a","u","l","t",".","w","a","v">>
AudioPaths == {bob_v2_wav, default_wav}

\* explicit voice_id arguments
kokoro_bob == <<"k","o","k","o","r","o","_","b","o","b">>
zonos_bob == <<"z","o","n","o","s","_","b","o","b">>
VoiceIds == {kokoro_bob, zonos_bob}


\* voice arguments of synthesize
Voices == {af_heart, zonos_bob}

\* the two recordings, and what an operation finds at an audio path: no
\* file, a file that does not decode, or the recording kept at that path
Contents == {"A", "B"}
Recording(audio_path) == IF audio_path = default_wav THEN "A" ELSE "B"
FileKinds(audio_path) == {"missing", "bad", Recording(audio_path)}

\* sample rate and channel count of the two decodable recordings
SourceRate(c) == IF c = "A" THEN 44100 ELSE 16000
SourceChannels(c) == IF c = "A" THEN 2 ELSE 1

\* sample.set_frame_rate(24000).set_channels(1), exported as sample.wav
KokoroSample(c) == [src |-> c, rate |-> 24000, channels |-> 1]

\* AudioSegment.from_file(audio_path) exported unchanged as sample.wav
ZonosSample(c) == [src |-> c, rate |-> SourceRate(c), channels |-> SourceChannels(c)]

\* model.make_speaker_embedding(wav, sampling_rate) of the mono mix-down
MakeSpeakerEmbedding(c) == [speaker |-> c]

(***************************************************************************)
(* The voices directory: a function from directory name to its two files   *)
(***************************************************************************)
EmptyDir == [sample |-> None, emb |-> None]

\* Path.mkdir(exist_ok=True)
Mkdir(v, d) == IF d \in DOMAIN v THEN v ELSE v @@ (d :> EmptyDir)

\* (voices_dir / d / "speaker_embedding.pt").exists()
HasEmbedding(v, d) == d \in DOMAIN v /\ IsSome(v[d].emb)

\* the default slot voices/zonos_default/speaker_embedding.pt
DefaultSlot(v) == IF zonos_default \in DOMAIN v THEN v[zonos_default].emb ELSE None

(***************************************************************************)
(* list_voices                                                             *)
(***************************************************************************)
ListVoicesKokoro(eng, v) ==
    [preset |-> eng.available_voices,
     cloned |-> {d \in DOMAIN v : StartsWith(d, kokoro_prefix)}]

\* mutant: every zonos_ directory is listed, with or without an embedding
ListVoicesZonosAnyDirectory(eng, v) ==
    [preset |-> IF HasEmbedding(v, zonos_default) THEN <<default_preset>> ELSE <<>>,
     cloned |-> {d \in DOMAIN v : StartsWith(d, zonos_prefix)}]

\* mutant: the preset 'default' is shown as soon as any Zonos voice is stored
ListVoicesZonosDefaultFromAny(eng, v) ==
    [preset |-> IF \E d \in DOMAIN v : StartsWith(d, zonos_prefix) /\ HasEmbedding(v, d)
                THEN <<default_preset>> ELSE <<>>,
     cloned |-> {d \in DOMAIN v : StartsWith(d, zonos_prefix) /\ HasEmbedding(v, d)}]

ListVoicesZonos(eng, v) ==
    [preset |-> IF HasEmbedding(v, zonos_default) THEN <<default_preset>> ELSE <<>>,
     cloned |-> {d \in DOMAIN v : StartsWith(d, zonos_prefix) /\ HasEmbedding(v, d)}]

ListVoices(eng, v) ==
    IF eng.model_type = kokoro THEN ListVoicesKokoro(eng, v)
    ELSE IF eng.model_type = zonos THEN ListVoicesZonos(eng, v)
    ELSE [preset |-> <<>>, cloned |-> {}]

(***************************************************************************)
(* The record of the last call; whether a Zonos clone called with          *)
(* make_default=true has completed (promoted) and the embedding the latest *)
(* such clone computed (lastDefault); and whether the last call was a      *)
(* completed clone with the explicit voice_id of the completed clone right *)
(* before it, of the same recording or of another one (recloned)           *)
(***************************************************************************)
NoCall ==
    [op |-> "none", model_type |-> None, adapter |-> "none",
     path |-> None, content |-> "missing", voice_id |-> None, voice |-> None,
     make_default |-> FALSE, outcome |-> "none", ret_id |-> None,
     ret_list |-> None, speaker |-> None]

\* no request has been served yet
NoRequest == [surface |-> "none", op |-> "none"]

\* the processes that clone at the same time, and one that has not begun
Clones == {1, 2}
NoClone == [pc |-> "idle", voice_id |-> None, content |-> "missing",
            make_default |-> FALSE]

Init ==
    /\ engine = None
    /\ voices = <<>>
    /\ last = NoCall
    /\ promoted = FALSE
    /\ recloned = "no"
    /\ lastDefault = None
    /\ files = <<>>
    /\ returned = {}
    /\ resp = NoRequest
    /\ clones = [p \in Clones |-> NoClone]
    /\ writer = <<>>

(***************************************************************************)
(* TTSEngine.__init__                                                      *)
(***************************************************************************)
\* mutant: the model type is compared without lower()
ConstructCaseSensitive(mt, load) ==
    /\ IsNone(engine)
    /\ LET call == [NoCall EXCEPT !.op = "construct", !.model_type = Some(mt)]
       IN  IF mt = kokoro \/ mt = zonos
           THEN IF load = "ok"
                THEN /\ engine' = Some([model_type |-> mt,
                                        available_voices |->
                                            IF mt = kokoro THEN KokoroPresets ELSE <<>>])
                     /\ last' = [call EXCEPT !.outcome = "ok"]
                ELSE /\ last' = [call EXCEPT !.outcome = load]
                     /\ UNCHANGED engine
           ELSE /\ load = "ok"
                /\ last' = [call EXCEPT !.outcome = "ValueError"]
                /\ UNCHANGED engine
    /\ recloned' = "no"
    /\ UNCHANGED <<voices, promoted, lastDefault, requestVars, raceVars>>

\* load is what importing and loading the model library comes to
Construct(mt, load) ==
    /\ IsNone(engine)
    /\ LET model_type == Lower(mt)
           call == [NoCall EXCEPT !.op = "construct", !.model_type = Some(mt)]
       IN  IF model_type = kokoro \/ model_type = zonos
           THEN IF load = "ok"
                THEN /\ engine' = Some([model_type |-> model_type,
                                        available_voices |->
                                            IF model_type = kokoro THEN KokoroPresets
                                            ELSE <<>>])
                     /\ last' = [call EXCEPT !.outcome = "ok"]
                ELSE /\ last' = [call EXCEPT !.outcome = load]
                     /\ UNCHANGED engine
           ELSE /\ load = "ok"
                /\ last' = [call EXCEPT !.outcome = "ValueError"]
                /\ UNCHANGED engine
    /\ recloned' = "no"
    /\ UNCHANGED <<voices, promoted, lastDefault, requestVars, raceVars>>

\* the process ends (sys.exit(main()) of the command line); the directory stays
Exit ==
    /\ IsSome(engine)
    /\ engine' = None
    /\ last' = [NoCall EXCEPT !.op = "exit"]
    /\ recloned' = "no"
    /\ UNCHANGED <<voices, promoted, lastDefault, requestVars, raceVars>>

\* the if/elif chain on self.model_type that every facade method starts with
Adapter(eng) ==
    IF eng.model_type = kokoro THEN "kokoro"
    ELSE IF eng.model_type = zonos THEN "zonos"
    ELSE "unsupported"

(***************************************************************************)
(* clone_voice                                                             *)
(***************************************************************************)
\* the voice id derived from the sample's file name when none is supplied
DerivedVoiceId(prefix, audio_path) == prefix \o SplitDotFirst(Basename(audio_path))

\* mutant: a sample that is already stored under the id is kept
CloneVoiceKokoroKeepsSample(v, audio_path, content, voice_id) ==
    LET id == IF IsNone(voice_id) THEN kokoro_prefix \o SplitDotFirst(Basename(audio_path))
              ELSE Get(voice_id)
        made == Mkdir(v, id)
    IN  IF content = "bad"
        THEN [voices |-> made, outcome |-> "DecodeError", ret_id |-> None]
        ELSE [voices |-> IF IsSome(made[id].sample) THEN made
                         ELSE [made EXCEPT ![id].sample = Some(KokoroSample(content))],
              outcome |-> "ok", ret_id |-> Some(id)]

\* _clone_voice_kokoro: the directory is made before the sample is decoded
CloneVoiceKokoro(v, audio_path, content, voice_id) ==
    LET id == IF IsNone(voice_id) THEN DerivedVoiceId(kokoro_prefix, audio_path)
              ELSE Get(voice_id)
        made == Mkdir(v, id)
    IN  IF content = "bad"
        THEN [voices |-> made, outcome |-> "DecodeError", ret_id |-> None]
        ELSE [voices |-> [made EXCEPT ![id].sample = Some(KokoroSample(content))],
              outcome |-> "ok", ret_id |-> Some(id)]

\* the part of _clone_voice_zonos that promotes the embedding to the default slot
SetDefault(v, make_default, embedding) ==
    IF make_default
    THEN [Mkdir(v, zonos_default) EXCEPT ![zonos_default].emb = Some(embedding)]
    ELSE v

\* _clone_voice_zonos: embedding first, then the sample copy, then the default slot
CloneVoiceZonos(v, audio_path, content, voice_id, make_default, modelOk) ==
    LET id == IF IsNone(voice_id) THEN DerivedVoiceId(zonos_prefix, audio_path)
              ELSE Get(voice_id)
    IN  IF content = "bad"
        THEN [voices |-> v, outcome |-> "DecodeError", ret_id |-> None]
        ELSE IF ~modelOk
        THEN [voices |-> v, outcome |-> "EmbeddingError", ret_id |-> None]
        ELSE LET speaker_embedding == MakeSpeakerEmbedding(content)
                 saved == [Mkdir(v, id) EXCEPT ![id].emb = Some(speaker_embedding)]
                 copied == [saved EXCEPT ![id].sample = Some(ZonosSample(content))]
             IN  [voices |-> SetDefault(copied, make_default, speaker_embedding),
                  outcome |-> "ok", ret_id |-> Some(id)]

\* clone_voice: the existence check, then the adapter of the engine's model type
CloneVoiceEngine(eng, v, audio_path, content, voice_id, make_default, modelOk) ==
    IF content = "missing"
    THEN [voices |-> v, outcome |-> "FileNotFoundError", ret_id |-> None,
          adapter |-> "none"]
    ELSE With(IF Adapter(eng) = "kokoro"
              THEN CloneVoiceKokoro(v, audio_path, content, voice_id)
              ELSE IF Adapter(eng) = "zonos"
              THEN CloneVoiceZonos(v, audio_path, content, voice_id,
                                   make_default, modelOk)
              ELSE [voices |-> v, outcome |-> "ValueError", ret_id |-> None],
              LAMBDA r :
                  [voices |-> r.voices, outcome |-> r.outcome, ret_id |-> r.ret_id,
                   adapter |-> Adapter(eng)])

CloneVoice(audio_path, content, voice_id, make_default, modelOk) ==
    /\ IsSome(engine)
    /\ ~modelOk => Adapter(Get(engine)) = "zonos" /\ content \in Contents
    \* inputs the call never reads are left at their defaults: a missing file
    \* ends the call at once, the Kokoro adapter is not handed make_default,
    \* and the Zonos adapter raises before it reads anything but the sample
    /\ content = "missing" => IsNone(voice_id) /\ ~make_default
    /\ Adapter(Get(engine)) = "kokoro" => ~make_default
    /\ Adapter(Get(engine)) = "zonos" /\ (content = "bad" \/ ~modelOk)
           => IsNone(voice_id) /\ ~make_default
    /\ LET call == [NoCall EXCEPT !.op = "clone_voice",
                                  !.path = Some(audio_path), !.content = content,
                                  !.voice_id = voice_id, !.make_default = make_default]
           r == CloneVoiceEngine(Get(engine), voices, audio_path, content, voice_id,
                                 make_default, modelOk)
           promotes == r.adapter = "zonos" /\ make_default /\ r.outcome = "ok"
       IN  /\ Cardinality(DOMAIN r.voices) <= MaxDirs
           /\ voices' = r.voices
           /\ last' = [call EXCEPT !.adapter = r.adapter, !.outcome = r.outcome,
                                   !.ret_id = r.ret_id]
           /\ promoted' = (promoted \/ promotes)
           /\ lastDefault' = IF promotes THEN Some(MakeSpeakerEmbedding(content))
                             ELSE lastDefault
           /\ recloned' =
                  IF /\ r.outcome = "ok" /\ IsSome(voice_id)
                     /\ last.op = "clone_voice" /\ last.outcome = "ok"
                     /\ last.voice_id = voice_id
                  THEN IF last.content = content THEN "same" ELSE "other"
                  ELSE "no"
    /\ UNCHANGED <<engine, requestVars, raceVars>>

(***************************************************************************)
(* synthesize                                                              *)
(***************************************************************************)
\* what the model did in a synthesize call: fault is "none", "embedding"
\* (make_speaker_embedding raised) or "generation" (the pipeline or generate raised)
Generated(fault) == IF fault = "none" THEN "ok" ELSE "SynthesisError"

\* _synthesize_kokoro: the store is not touched; the pipeline may raise
SynthesizeKokoro(v, fault) ==
    [voices |-> v, outcome |-> Generated(fault), speaker |-> None]

\* mutant: the embedding made from the reference audio is not saved
SynthesizeZonosTransient(v, reference_audio, content, fault) ==
    IF IsNone(reference_audio)
    THEN IF HasEmbedding(v, zonos_default)
         THEN [voices |-> v, outcome |-> Generated(fault),
               speaker |-> v[zonos_default].emb]
         ELSE [voices |-> v, outcome |-> "NoDefaultVoice", speaker |-> None]
    ELSE IF content = "missing" \/ content = "bad"
    THEN [voices |-> v, outcome |-> "DecodeError", speaker |-> None]
    ELSE IF fault = "embedding"
    THEN [voices |-> v, outcome |-> "EmbeddingError", speaker |-> None]
    ELSE [voices |-> v, outcome |-> Generated(fault),
          speaker |-> Some(MakeSpeakerEmbedding(content))]

\* mutant: without reference audio the first stored Zonos embedding is used
SynthesizeZonosAnyStored(v, reference_audio, content, fault) ==
    IF IsNone(reference_audio)
    THEN IF \E d \in DOMAIN v : StartsWith(d, zonos_prefix) /\ HasEmbedding(v, d)
         THEN [voices |-> v, outcome |-> Generated(fault),
               speaker |-> v[CHOOSE d \in DOMAIN v :
                                 StartsWith(d, zonos_prefix) /\ HasEmbedding(v, d)].emb]
         ELSE [voices |-> v, outcome |-> "NoDefaultVoice", speaker |-> None]
    ELSE IF content = "missing" \/ content = "bad"
    THEN [voices |-> v, outcome |-> "DecodeError", speaker |-> None]
    ELSE IF fault = "embedding"
    THEN [voices |-> v, outcome |-> "EmbeddingError", speaker |-> None]
    ELSE LET speaker == MakeSpeakerEmbedding(content)
             speaker_dir == zonos_prefix \o PathStem(Get(reference_audio))
             saved == [Mkdir(v, speaker_dir) EXCEPT ![speaker_dir].emb = Some(speaker)]
         IN  [voices |-> saved, outcome |-> Generated(fault), speaker |-> Some(speaker)]

\* _synthesize_zonos: the speaker is the default embedding or one made from
\* the reference audio, which is saved under zonos_<stem> before generation
SynthesizeZonos(v, reference_audio, content, fault) ==
    IF IsNone(reference_audio)
    THEN IF HasEmbedding(v, zonos_default)
         THEN [voices |-> v, outcome |-> Generated(fault),
               speaker |-> v[zonos_default].emb]
         ELSE [voices |-> v, outcome |-> "NoDefaultVoice", speaker |-> None]
    ELSE IF content = "missing" \/ content = "bad"
    THEN [voices |-> v, outcome |-> "DecodeError", speaker |-> None]
    ELSE IF fault = "embedding"
    THEN [voices |-> v, outcome |-> "EmbeddingError", speaker |-> None]
    ELSE LET speaker == MakeSpeakerEmbedding(content)
             speaker_dir == zonos_prefix \o PathStem(Get(reference_audio))
             saved == [Mkdir(v, speaker_dir) EXCEPT ![speaker_dir].emb = Some(speaker)]
         IN  [voices |-> saved, outcome |-> Generated(fault), speaker |-> Some(speaker)]

Synthesize(voice, reference_audio, content, fault) ==
    /\ IsSome(engine)
    /\ fault = "embedding" => Adapter(Get(engine)) = "zonos" /\ content \in Contents
    \* a call with reference audio is made with the default voice argument
    /\ IsSome(reference_audio) => voice = af_heart
    /\ IsNone(reference_audio) => content = "missing"
    \* the Kokoro adapter is not handed reference_audio: it is left out for it
    /\ Adapter(Get(engine)) = "kokoro" => IsNone(reference_audio)
    /\ LET eng == Get(engine)
           adapter == Adapter(eng)
           r == IF adapter = "kokoro" THEN SynthesizeKokoro(voices, fault)
                ELSE IF adapter = "zonos"
                THEN SynthesizeZonos(voices, reference_audio, content, fault)
                ELSE [voices |-> voices, outcome |-> "ValueError", speaker |-> None]
       IN  /\ Cardinality(DOMAIN r.voices) <= MaxDirs
           /\ voices' = r.voices
           /\ last' = [NoCall EXCEPT !.op = "synthesize", !.adapter = adapter,
                                     !.voice = Some(voice), !.path = reference_audio,
                                     !.content = content, !.outcome = r.outcome,
                                     !.speaker = r.speaker]
    /\ recloned' = "no"
    /\ UNCHANGED <<engine, promoted, lastDefault, requestVars, raceVars>>

(***************************************************************************)
(* list_voices                                                             *)
(***************************************************************************)
ListVoicesCall ==
    /\ IsSome(engine)
    /\ LET eng == Get(engine)
       IN  last' = [NoCall EXCEPT !.op = "list_voices", !.adapter = Adapter(eng),
                                  !.outcome = "ok",
                                  !.ret_list = Some(ListVoices(eng, voices))]
    /\ recloned' = "no"
    /\ UNCHANGED <<engine, voices, promoted, lastDefault, requestVars, raceVars>>

Next ==
    \/ \E mt \in ModelTypes, load \in {"ok", "ImportError", "InitError"} :
           Construct(mt, load)
    \/ Exit
    \/ \E p \in AudioPaths, id \in {None} \cup {Some(x) : x \in VoiceIds},
          md \in BOOLEAN, ok \in BOOLEAN :
           \E c \in FileKinds(p) : CloneVoice(p, c, id, md, ok)
    \/ \E vc \in Voices,
          ref \in {None} \cup {Some(x) : x \in AudioPaths},
          fault \in {"none", "embedding", "generation"} :
           \E c \in IF IsNone(ref) THEN {"missing"} ELSE FileKinds(Get(ref)) :
               Synthesize(vc, ref, c, fault)
    \/ ListVoicesCall

Spec == Init /\ [][Next]_vars

(***************************************************************************)
(* Shorthands for the claims                                               *)
(***************************************************************************)
IsClone(l) == l.op = "clone_voice"
IsSynthesize(l) == l.op = "synthesize"
ClonedOk(l) == IsClone(l) /\ l.outcome = "ok"
\* a Zonos synthesize call that was given no reference audio
ZonosNoReference(l) == IsSynthesize(l) /\ l.adapter = "zonos" /\ IsNone(l.path)
\* a Zonos synthesize call whose reference audio was decoded and embedded
ZonosWithReference(l) ==
    /\ IsSynthesize(l) /\ l.adapter = "zonos" /\ IsSome(l.path)
    /\ l.outcome \in {"ok", "SynthesisError"}

(***************************************************************************)
(* C1: right after clone_voice returns identifier v, list_voices()         *)
(* ['cloned'] of the same engine contains v, for either model type and any *)
(* voice_id, supplied or derived.                                          *)
(***************************************************************************)
C1_ClonedIsListed ==
    ClonedOk(last) => Get(last.ret_id) \in ListVoices(Get(engine), voices).cloned

(***************************************************************************)
(* C2: on a Zonos engine, synthesize without reference audio fails with    *)
(* the no-voice error in every state where no clone with make_default=true *)
(* has completed, and otherwise succeeds unless the model fails.           *)
(***************************************************************************)
C2_DefaultOnlyAfterMakeDefault ==
    ZonosNoReference(last) =>
        IF promoted THEN last.outcome \in {"ok", "SynthesisError"}
        ELSE last.outcome = "NoDefaultVoice"

(***************************************************************************)
(* C3: the default slot voices/zonos_default/speaker_embedding.pt is       *)
(* changed only by a clone called with make_default=true; synthesize,      *)
(* list_voices and a clone with make_default=false leave it unchanged.     *)
(***************************************************************************)
C3_DefaultChangedOnlyByMakeDefault ==
    [][DefaultSlot(voices') # DefaultSlot(voices)
          => IsClone(last') /\ last'.make_default]_vars

(***************************************************************************)
(* C4: a Zonos synthesize call given raw reference audio persists nothing: *)
(* the voice store is the same after the call as before it.                *)
(***************************************************************************)
C4_ReferenceSynthesisPersistsNothing ==
    [][IsSynthesize(last') /\ last'.adapter = "zonos" /\ IsSome(last'.path)
          => voices' = voices]_vars

(***************************************************************************)
(* C4 as amended: a Zonos synthesize call that computes an embedding from  *)
(* raw reference audio saves it as speaker_embedding.pt of the directory   *)
(* zonos_<stem of the reference path>, making the directory if needed,     *)
(* whether or not generation then succeeds, and conditions generation on   *)
(* it; it changes nothing else in the store, and a call that fails before  *)
(* the embedding is computed changes nothing at all.                       *)
(***************************************************************************)
C4_ReferenceSynthesisSavesEmbedding ==
    [][IsSynthesize(last') /\ last'.adapter = "zonos" /\ IsSome(last'.path)
          => IF last'.outcome \in {"ok", "SynthesisError"}
             THEN LET d == zonos_prefix \o PathStem(Get(last'.path))
                  IN  /\ DOMAIN voices' = DOMAIN voices \cup {d}
                      /\ voices'[d].emb = Some(MakeSpeakerEmbedding(last'.content))
                      /\ last'.speaker = voices'[d].emb
                      /\ voices'[d].sample =
                             IF d \in DOMAIN voices THEN voices[d].sample ELSE None
                      /\ \A x \in DOMAIN voices \ {d} : voices'[x] = voices[x]
             ELSE voices' = voices]_vars

\* reference audio was embedded and saved into a directory that did not exist
C4_Witness ==
    /\ ZonosWithReference(last)
    /\ last.path = Some(bob_v2_wav)
    /\ HasEmbedding(voices, zonos_prefix \o PathStem(bob_v2_wav))
    /\ last.speaker = Some(MakeSpeakerEmbedding("B"))
    /\ Cardinality(DOMAIN voices) = 2

(***************************************************************************)
(* C5: on a Zonos engine, synthesize called with the identifier of a       *)
(* cloned voice and no reference audio conditions generation on the        *)
(* embedding stored under that identifier, and fails with a voice-not-     *)
(* found error when the identifier has no embedding in the store.          *)
(***************************************************************************)
C5_VoiceIdentifierResolved ==
    ZonosNoReference(last) =>
        IF HasEmbedding(voices, Get(last.voice))
        THEN last.speaker = voices[Get(last.voice)].emb
        ELSE last.outcome \notin {"ok", "SynthesisError"}

(***************************************************************************)
(* C5 as amended: on a Zonos engine, synthesize called with a voice        *)
(* identifier and no reference audio ignores the identifier: it conditions *)
(* generation on the embedding in the default slot when that exists, and   *)
(* fails with the no-default-voice error otherwise, whether or not the     *)
(* identifier has an embedding in the store.                               *)
(***************************************************************************)
C5_VoiceIdentifierIgnored ==
    ZonosNoReference(last) =>
        IF HasEmbedding(voices, zonos_default)
        THEN /\ last.speaker = voices[zonos_default].emb
             /\ last.outcome \in {"ok", "SynthesisError"}
        ELSE /\ last.outcome = "NoDefaultVoice"
             /\ IsNone(last.speaker)

\* the identifier names a cloned voice, yet the default embedding was used
C5_Witness ==
    /\ ZonosNoReference(last)
    /\ last.voice = Some(zonos_bob)
    /\ HasEmbedding(voices, zonos_bob)
    /\ HasEmbedding(voices, zonos_default)
    /\ voices[zonos_bob].emb # voices[zonos_default].emb
    /\ last.outcome = "ok"
    /\ last.speaker = voices[zonos_default].emb

(***************************************************************************)
(* Two completed clones in a row with the same explicit voice_id           *)
(***************************************************************************)
Recloning(l1, l2) ==
    /\ ClonedOk(l1) /\ ClonedOk(l2)
    /\ IsSome(l1.voice_id) /\ l2.voice_id = l1.voice_id

\* the record under id holds what the call l wrote, and l returned id
RecordWrittenBy(v, id, l) ==
    /\ l.ret_id = Some(id)
    /\ id \in DOMAIN v
    /\ IF l.adapter = "kokoro"
       THEN v[id].sample = Some([src |-> l.content, rate |-> 24000, channels |-> 1])
       ELSE /\ v[id].emb = Some([speaker |-> l.content])
            /\ v[id].sample = Some(ZonosSample(l.content))

(***************************************************************************)
(* C6: cloning twice with the same explicit voice_id is idempotent on the  *)
(* store: after the second clone there is one voice record for that id,    *)
(* its contents are those written by the second call, and the set of       *)
(* listed voices is the same as after the first call.                      *)
(***************************************************************************)
C6_RecloneIdempotent ==
    [][Recloning(last, last')
          => /\ RecordWrittenBy(voices', Get(last'.voice_id), last')
             /\ DOMAIN voices' = DOMAIN voices
             /\ ListVoices(Get(engine'), voices') = ListVoices(Get(engine), voices)]_vars

(***************************************************************************)
(* C6 as amended: after the second of two clones with the same explicit    *)
(* voice_id there is one voice record for that id, its contents are those  *)
(* written by the second call, and the set of listed voices is the same as *)
(* after the first call, except that a second call made with               *)
(* make_default=true on a Zonos engine that had no default voice adds the  *)
(* default voice (the preset 'default' and the directory zonos_default).   *)
(***************************************************************************)
C6_RecloneIdempotentButDefault ==
    [][Recloning(last, last')
          => LET before == ListVoices(Get(engine), voices)
                 after == ListVoices(Get(engine'), voices')
                 addsDefault == /\ last'.adapter = "zonos" /\ last'.make_default
                                /\ ~HasEmbedding(voices, zonos_default)
             IN  /\ RecordWrittenBy(voices', Get(last'.voice_id), last')
                 /\ Get(last'.voice_id) \in DOMAIN voices
                 /\ IF addsDefault
                    THEN /\ DOMAIN voices' = DOMAIN voices \cup {zonos_default}
                         /\ after.preset = <<default_preset>>
                         /\ after.cloned = before.cloned \cup {zonos_default}
                    ELSE /\ DOMAIN voices' = DOMAIN voices
                         /\ after = before]_vars

\* a listed voice was cloned again under its id from another recording
C6_Witness ==
    /\ recloned = "other"
    /\ ClonedOk(last)
    /\ Get(last.ret_id) \in ListVoices(Get(engine), voices).cloned
    /\ Cardinality(DOMAIN voices) = 1

(***************************************************************************)
(* C7: every name in a Zonos engine's list_voices()['cloned'] is a         *)
(* directory of the voices directory whose speaker_embedding.pt exists; a  *)
(* zonos_-prefixed directory without an embedding file is never listed.    *)
(***************************************************************************)
C7_ListedZonosVoicesHaveEmbedding ==
    (last.op = "list_voices" /\ last.adapter = "zonos")
        => /\ \A d \in Get(last.ret_list).cloned :
                  d \in DOMAIN voices /\ IsSome(voices[d].emb)
           /\ \A d \in DOMAIN voices :
                  StartsWith(d, zonos_prefix) /\ IsNone(voices[d].emb)
                      => d \notin Get(last.ret_list).cloned

\* a zonos_ directory without an embedding exists next to a listed voice
C7_Witness ==
    /\ last.op = "list_voices" /\ last.adapter = "zonos"
    /\ Get(last.ret_list).cloned # {}
    /\ \E d \in DOMAIN voices :
           /\ StartsWith(d, zonos_prefix) /\ IsNone(voices[d].emb)
           /\ d \notin Get(last.ret_list).cloned

(***************************************************************************)
(* C8: list_voices()['preset'] of a Kokoro engine is always the list       *)
(* [af_heart, af_woh, am_standard], whatever was cloned or synthesized;    *)
(* of a Zonos engine it is ['default'] exactly when the default-voice      *)
(* embedding exists and [] otherwise.                                      *)
(***************************************************************************)
C8_PresetList ==
    IsSome(engine) =>
        LET preset == ListVoices(Get(engine), voices).preset
        IN  /\ Get(engine).model_type = kokoro
                => preset = <<af_heart, af_woh, am_standard>>
            /\ Get(engine).model_type = zonos
                => preset = IF IsSome(DefaultSlot(voices)) THEN <<default_preset>>
                            ELSE <<>>

\* a Zonos engine lists the preset 'default' next to a cloned voice
C8_Witness ==
    /\ last.op = "list_voices" /\ last.adapter = "zonos"
    /\ Get(last.ret_list).preset = <<default_preset>>
    /\ zonos_bob \in Get(last.ret_list).cloned
    /\ IsSome(DefaultSlot(voices))

C10_OneBackendForLife ==
    [][/\ last'.op = "construct"
           => LET mt == Get(last'.model_type)
              IN  IF Lower(mt) = kokoro \/ Lower(mt) = zonos
                  THEN \/ /\ last'.outcome = "ok"
                          /\ IsSome(engine')
                          /\ Get(engine').model_type = Lower(mt)
                       \/ /\ last'.outcome \in {"ImportError", "InitError"}
                          /\ IsNone(engine')
                  ELSE last'.outcome = "ValueError" /\ IsNone(engine')
       /\ IsSome(engine) /\ IsSome(engine') => engine' = engine
       /\ last'.op \in {"synthesize", "clone_voice", "list_voices"}
           => /\ IsSome(engine') /\ engine' = engine
              /\ last'.adapter = "none" => last'.outcome = "FileNotFoundError"
              /\ last'.adapter # "none"
                  => /\ last'.adapter \in {"kokoro", "zonos"}
                     /\ (last'.adapter = "kokoro") = (Get(engine').model_type = kokoro)
                     /\ (last'.adapter = "zonos") = (Get(engine').model_type = zonos)]_vars

\* an engine built from 'ZONOS' or 'Kokoro' serves a call on a store that
\* holds a record of the other backend
C10_Witness ==
    /\ last.op = "clone_voice" /\ last.outcome = "ok"
    /\ last.adapter = "kokoro"
    /\ Get(engine).model_type = kokoro
    /\ \E d \in DOMAIN voices : IsSome(voices[d].emb)

(***************************************************************************)
(* C15: after any sequence of Zonos clone operations at most one default   *)
(* voice exists, and the embedding in the default slot is the one computed *)
(* by the latest completed clone that was called with make_default=true    *)
(* (and there is none while no such clone has completed).                  *)
(***************************************************************************)
C15_DefaultIsLatestMakeDefault ==
    DefaultSlot(voices) = lastDefault

(***************************************************************************)
(* The output of synthesize: audio files                                   *)
(***************************************************************************)
\* number of names tempfile.NamedTemporaryFile has to choose from
MaxTemp == 2
\* most segments the Kokoro pipeline yields for one text
MaxChunks == 2
\* the numbers of samples a segment may have
SegmentLengths == {1, 2}

\* sf.write(output_path, combined_audio, 24000)
KokoroRate == 24000
\* self.model.autoencoder.sampling_rate of the Zonos autoencoder
ZonosRate == 44100

\* a file of the temporary directory, and the output path a caller names
TempFile(i) == [dir |-> "tmp", n |-> i]
TempFiles == {TempFile(i) : i \in 1..MaxTemp}
out_wav == [dir |-> "out", n |-> 1]
OutputPaths == {None, Some(out_wav)}

\* mutant: a name is handed out whether or not a file of that name exists
NamedTemporaryFileAnyName(fs) == TempFiles

\* tempfile.NamedTemporaryFile(suffix='.wav', delete=False): the names it may
\* create, those no file of the directory has yet
NamedTemporaryFile(fs) == TempFiles \ DOMAIN fs

\* a file is written: its content is None while empty, or the waveform
WriteFile(fs, path, content) ==
    [p \in DOMAIN fs \cup {path} |-> IF p = path THEN content ELSE fs[p]]

\* the segments a text makes the pipeline yield, given by their lengths;
\* sample j of segment i is <<i, j>>
ChunkLists == UNION {[1..n -> SegmentLengths] : n \in 0..MaxChunks}
Pipeline(lens) == [i \in DOMAIN lens |-> [j \in 1..lens[i] |-> <<i, j>>]]

\* np.concatenate(audio_segments) of one or more segments
RECURSIVE Concatenate(_)
Concatenate(audio_segments) ==
    IF audio_segments = <<>> THEN <<>>
    ELSE Head(audio_segments) \o Concatenate(Tail(audio_segments))

\* mutant: the file is written at the rate of the other backend
KokoroAudioOtherRate(lens, fault) ==
    IF fault # "none" THEN [outcome |-> "SynthesisError", audio |-> None]
    ELSE LET audio_segments == Pipeline(lens)
         IN  IF audio_segments = <<>>
             THEN [outcome |-> "ValueError", audio |-> None]
             ELSE [outcome |-> "ok",
                   audio |-> Some([rate |-> ZonosRate,
                                   samples |-> Concatenate(audio_segments)])]

\* the audio part of _synthesize_kokoro: np.concatenate raises ValueError
\* when the pipeline yielded no segment
KokoroAudio(lens, fault) ==
    IF fault # "none" THEN [outcome |-> "SynthesisError", audio |-> None]
    ELSE LET audio_segments == Pipeline(lens)
         IN  IF audio_segments = <<>>
             THEN [outcome |-> "ValueError", audio |-> None]
             ELSE [outcome |-> "ok",
                   audio |-> Some([rate |-> KokoroRate,
                                   samples |-> Concatenate(audio_segments)])]

\* wavs[0] of self.model.autoencoder.decode(codes): one waveform, which
\* depends on the speaker the generation was conditioned on
ZonosAudio(speaker) ==
    [rate |-> ZonosRate,
     samples |-> << <<0, IF Get(speaker).speaker = "A" THEN 1 ELSE 2>> >>]

\* TTSEngine.synthesize as a whole: the temporary file is created before the
\* dispatch and stays when the adapter raises; the adapter writes the audio
\* file and returns its path
SynthesizeEngine(eng, v, fs, tmp, output_path, reference_audio, content, fault, lens) ==
    LET path == IF IsNone(output_path) THEN tmp ELSE Get(output_path)
        created == IF IsNone(output_path) THEN WriteFile(fs, tmp, None) ELSE fs
        adapter == Adapter(eng)
    IN  IF adapter = "kokoro"
        THEN With(KokoroAudio(lens, fault), LAMBDA a :
                 [voices |-> SynthesizeKokoro(v, fault).voices,
                  files |-> IF a.outcome = "ok" THEN WriteFile(created, path, a.audio)
                            ELSE created,
                  outcome |-> a.outcome, audio |-> a.audio, speaker |-> None,
                  ret |-> IF a.outcome = "ok" THEN Some(path) ELSE None])
        ELSE IF adapter = "zonos"
        THEN With(SynthesizeZonos(v, reference_audio, content, fault), LAMBDA r :
                 LET audio == IF r.outcome = "ok" THEN Some(ZonosAudio(r.speaker))
                              ELSE None
                 IN  [voices |-> r.voices,
                      files |-> IF r.outcome = "ok" THEN WriteFile(created, path, audio)
                                ELSE created,
                      outcome |-> r.outcome, audio |-> audio, speaker |-> r.speaker,
                      ret |-> IF r.outcome = "ok" THEN Some(path) ELSE None])
        ELSE [voices |-> v, files |-> created, outcome |-> "ValueError",
              audio |-> None, speaker |-> None, ret |-> None]

\* a direct call of synthesize, with or without output_path
SynthesizeOutput(output_path, reference_audio, content, fault, lens) ==
    /\ IsSome(engine)
    /\ fault = "embedding" => Adapter(Get(engine)) = "zonos" /\ content \in Contents
    /\ IsNone(reference_audio) => content = "missing"
    \* the Kokoro adapter is not handed reference_audio, and the Zonos adapter
    \* has no pipeline of segments
    /\ Adapter(Get(engine)) = "kokoro" => IsNone(reference_audio)
    /\ Adapter(Get(engine)) = "zonos" => lens = <<>>
    /\ \E tmp \in IF IsNone(output_path) THEN NamedTemporaryFile(files)
                  ELSE {TempFile(1)} :
           LET r == SynthesizeEngine(Get(engine), voices, files, tmp, output_path,
                                     reference_audio, content, fault, lens)
           IN  /\ Cardinality(DOMAIN r.voices) <= MaxDirs
               /\ voices' = r.voices
               /\ files' = r.files
               /\ resp' = [surface |-> "engine", op |-> "synthesize",
                           adapter |-> Adapter(Get(engine)),
                           output_path |-> output_path, lens |-> lens,
                           outcome |-> r.outcome, ret |-> r.ret, audio |-> r.audio]
               /\ returned' = IF IsSome(r.ret) THEN returned \cup {Get(r.ret)}
                              ELSE returned
    /\ UNCHANGED <<engine, last, promoted, recloned, lastDefault, raceVars>>

\* texts that make the pipeline yield no segment or one segment
ShortChunkLists == {lens \in ChunkLists : Len(lens) <= 1}

\* an engine is constructed and synthesize is called on it any number of times
NextSynth ==
    \/ \E mt \in ModelTypes, load \in {"ok", "ImportError", "InitError"} :
           Construct(mt, load)
    \/ \E out \in OutputPaths,
          ref \in {None} \cup {Some(x) : x \in AudioPaths},
          fault \in {"none", "embedding", "generation"},
          lens \in ShortChunkLists :
           \E c \in IF IsNone(ref) THEN {"missing"} ELSE FileKinds(Get(ref)) :
               SynthesizeOutput(out, ref, c, fault, lens)

SpecSynth == Init /\ [][NextSynth]_vars

(***************************************************************************)
(* C11: a successful synthesize call returns the caller's output_path when *)
(* one is given, and the audio is in the file at that path; when none is   *)
(* given it returns the path of a temporary file created by this call,     *)
(* which holds the audio and differs from the path every earlier           *)
(* synthesize call returned, also for identical inputs.                    *)
(***************************************************************************)
C11_OutputPathOrFreshTemporary ==
    [][(resp' # resp \/ files' # files) /\ resp'.op = "synthesize"
           /\ resp'.outcome = "ok"
          => LET p == Get(resp'.ret)
             IN  /\ IsSome(resp'.ret)
                 /\ p \in DOMAIN files'
                 /\ IsSome(files'[p]) /\ files'[p] = resp'.audio
                 /\ IF IsSome(resp'.output_path)
                    THEN resp'.ret = resp'.output_path
                    ELSE /\ p \in TempFiles
                         /\ p \notin DOMAIN files
                         /\ p \notin returned]_vars

\* two calls without output_path and with the same input have returned two
\* different temporary files that hold the same audio
C11_Witness ==
    /\ resp.op = "synthesize" /\ resp.outcome = "ok" /\ IsNone(resp.output_path)
    /\ \E p \in returned, q \in returned :
           /\ p # q /\ p \in TempFiles /\ q \in TempFiles
           /\ q = Get(resp.ret)
           /\ IsSome(files[p]) /\ files[p] = files[q]

(***************************************************************************)
(* Kokoro synthesis into a named output file, for every list of segments   *)
(***************************************************************************)
NextChunks ==
    \/ \E mt \in ModelTypes, load \in {"ok", "ImportError", "InitError"} :
           Construct(mt, load)
    \/ \E ref \in {None} \cup {Some(x) : x \in AudioPaths},
          fault \in {"none", "embedding", "generation"},
          lens \in ChunkLists :
           \E c \in IF IsNone(ref) THEN {"missing"} ELSE FileKinds(Get(ref)) :
               SynthesizeOutput(Some(out_wav), ref, c, fault, lens)

SpecChunks == Init /\ [][NextChunks]_vars

\* the number of samples of the first n segments
RECURSIVE SamplesBefore(_, _)
SamplesBefore(lens, n) == IF n = 0 THEN 0 ELSE SamplesBefore(lens, n - 1) + lens[n]

(***************************************************************************)
(* C20: Kokoro synthesize assumes nothing about the number of segments the *)
(* pipeline yields: whenever the pipeline does not raise, the waveform     *)
(* written is all segments in the order they were yielded, sample j of     *)
(* segment i at place (samples of segments before i) + j, none dropped or  *)
(* repeated, and its length is the sum of the segment lengths.             *)
(***************************************************************************)
C20_ConcatenationOfAllChunks ==
    (resp.op = "synthesize" /\ resp.adapter = "kokoro"
         /\ resp.outcome # "SynthesisError")
        => /\ resp.outcome = "ok"
           /\ IsSome(resp.audio)
           /\ LET samples == Get(resp.audio).samples
                  lens == resp.lens
              IN  /\ Len(samples) = SamplesBefore(lens, Len(lens))
                  /\ \A i \in DOMAIN lens : \A j \in 1..lens[i] :
                         samples[SamplesBefore(lens, i - 1) + j] = <<i, j>>
                  /\ files[out_wav] = resp.audio

(***************************************************************************)
(* The chains (src/voice_agent/chain.py) and the agents built on them      *)
(***************************************************************************)
\* create_voice_agent(model_type)["tts_engine"] once the model has loaded
kokoro_tts_engine == [model_type |-> kokoro, available_voices |-> KokoroPresets]
zonos_tts_engine == [model_type |-> zonos, available_voices |-> <<>>]

\* the keys a caller may put into the input dictionary of a chain
ChainInputs ==
    [text |-> <<>>, voice_id |-> None, output_path |-> None,
     reference_audio |-> None, audio_path |-> None, make_default |-> FALSE]

\* one call of an engine method, with the arguments it was handed
EngineCall(fn, eng) ==
    [fn |-> fn, model_type |-> eng.model_type, voice_id |-> None,
     output_path |-> None, reference_audio |-> None, make_default |-> FALSE]

\* VoiceChain._call: text, voice_id, speed and output_path are read from the
\* inputs and handed to synthesize; content is what is found at the path
\* inputs.reference_audio names
VoiceChain(eng, v, fs, inputs, content, fault, lens) ==
    LET voice_id == IF IsNone(inputs.voice_id) THEN af_heart ELSE Get(inputs.voice_id)
    IN  With(SynthesizeEngine(eng, v, fs, TempFile(1), inputs.output_path,
                              None, "missing", fault, lens),
             LAMBDA r :
                 [voices |-> r.voices, files |-> r.files, outcome |-> r.outcome,
                  audio_path |-> r.ret, audio |-> r.audio, speaker |-> r.speaker,
                  call |-> [EngineCall("synthesize", eng) EXCEPT
                                !.voice_id = Some(voice_id),
                                !.output_path = inputs.output_path]])

\* VoiceCloningChain._call: audio_path and voice_id are read from the inputs
\* and handed to clone_voice, whose make_default stays at its default
VoiceCloningChain(eng, v, inputs, content, modelOk) ==
    With(CloneVoiceEngine(eng, v, Get(inputs.audio_path), content,
                          inputs.voice_id, FALSE, modelOk),
         LAMBDA r :
             [voices |-> r.voices, outcome |-> r.outcome, voice_id |-> r.ret_id,
              call |-> [EngineCall("clone_voice", eng) EXCEPT
                            !.voice_id = inputs.voice_id]])

(***************************************************************************)
(* Requests: what a surface was asked and what it answered                 *)
(***************************************************************************)
\* texts of a request: the empty text and a text of words
hello == <<"h","i">>
Texts == {<<>>, hello}

\* speed values of a job: a number and something float() rejects
Speeds == {"1.0", "fast"}
IsFloat(speed) == speed = "1.0"

\* an output file named after next(tempfile._get_candidate_names()): any name
\* of the surface's temporary directory, taken or not
Candidate(dir, i) == [dir |-> dir, n |-> i]
Candidates(dir) == {Candidate(dir, i) : i \in 1..MaxTemp}

\* os.remove(path) if os.path.exists(path)
RemoveFile(fs, path) == [p \in DOMAIN fs \ {path} |-> fs[p]]

\* the answer to a request: raised is an exception that left the handler,
\* error an 'error' field, status an HTTP status or a process exit code,
\* calls the engine calls made, created the temporary output file named
Answer(surface, op) ==
    [surface |-> surface, op |-> op, model_type |-> None,
     raised |-> "", error |-> FALSE, status |-> 0, calls |-> <<>>,
     created |-> None, make_default |-> FALSE, reference_audio |-> None,
     text |-> <<>>, voice |-> None, lens |-> <<>>, fault |-> "none",
     sample_rate |-> 0, duration |-> None, voice_id |-> None, audio |-> None]

(***************************************************************************)
(* The RunPod handler (src/runpod_handler.py); AGENT is the Kokoro agent    *)
(***************************************************************************)
\* sf.read(audio_path): the samples and the sample rate of the file
SfRead(fs, path) == Get(fs[path])

\* duration = len(audio_data) / sample_rate, kept as numerator and denominator
Duration(wave) == <<Len(wave.samples), wave.rate>>

\* handle_synthesize
HandleSynthesize(v, fs, text, voice, speed, out, fault, lens) ==
    LET answer == [Answer("runpod", "synthesize") EXCEPT
                       !.text = text, !.voice = Some(voice), !.lens = lens,
                       !.fault = fault]
    IN  IF ~IsFloat(speed)
        THEN [voices |-> v, files |-> fs,
              resp |-> [answer EXCEPT !.raised = "ValueError"]]
        ELSE IF text = <<>>
        THEN [voices |-> v, files |-> fs, resp |-> [answer EXCEPT !.error = TRUE]]
        ELSE With(VoiceChain(kokoro_tts_engine, v, fs,
                             [ChainInputs EXCEPT !.text = text,
                                                 !.voice_id = Some(voice),
                                                 !.output_path = Some(out)],
                             "missing", fault, lens),
                  LAMBDA r :
                      LET made == [answer EXCEPT !.calls = <<r.call>>,
                                                 !.created = Some(out)]
                      IN  [voices |-> r.voices,
                           files |-> RemoveFile(r.files, out),
                           resp |-> IF r.outcome = "ok"
                                    THEN LET wave == SfRead(r.files, Get(r.audio_path))
                                         IN  [made EXCEPT
                                                  !.sample_rate = wave.rate,
                                                  !.duration = Some(Duration(wave)),
                                                  !.audio = r.audio]
                                    ELSE [made EXCEPT !.error = TRUE]])

\* handle_clone; content is what the download left at audio_path
HandleClone(v, fs, audio_url, content, voice_id) ==
    LET answer == Answer("runpod", "clone")
    IN  IF IsNone(audio_url)
        THEN [voices |-> v, files |-> fs, resp |-> [answer EXCEPT !.error = TRUE]]
        ELSE LET r == VoiceCloningChain(kokoro_tts_engine, v,
                                        [ChainInputs EXCEPT !.audio_path = audio_url,
                                                            !.voice_id = voice_id],
                                        content, TRUE)
                 made == [answer EXCEPT !.calls = <<r.call>>]
             IN  [voices |-> r.voices, files |-> fs,
                  resp |-> IF r.outcome = "ok"
                           THEN [made EXCEPT !.voice_id = r.voice_id]
                           ELSE [made EXCEPT !.error = TRUE]]

\* handle_synthesize_with_clone: output_path is first assigned after the
\* clone, and the finally clause reads it whatever happened
HandleSynthesizeWithClone(v, fs, text, audio_url, content, speed, out, fault, lens) ==
    LET answer == [Answer("runpod", "synthesize_with_clone") EXCEPT
                       !.text = text, !.lens = lens, !.fault = fault]
    IN  IF ~IsFloat(speed)
        THEN [voices |-> v, files |-> fs,
              resp |-> [answer EXCEPT !.raised = "ValueError"]]
        ELSE IF text = <<>> \/ IsNone(audio_url)
        THEN [voices |-> v, files |-> fs, resp |-> [answer EXCEPT !.error = TRUE]]
        ELSE With(VoiceCloningChain(kokoro_tts_engine, v,
                                    [ChainInputs EXCEPT !.audio_path = audio_url],
                                    content, TRUE),
                  LAMBDA c :
             IF c.outcome # "ok"
             THEN [voices |-> c.voices, files |-> fs,
                   resp |-> [answer EXCEPT !.calls = <<c.call>>,
                                           !.raised = "UnboundLocalError"]]
             ELSE With(VoiceChain(kokoro_tts_engine, c.voices, fs,
                                  [ChainInputs EXCEPT !.text = text,
                                                      !.voice_id = c.voice_id,
                                                      !.output_path = Some(out)],
                                  "missing", fault, lens),
                       LAMBDA r :
                  LET made == [answer EXCEPT !.calls = <<c.call, r.call>>,
                                             !.created = Some(out),
                                             !.voice = c.voice_id]
                  IN  [voices |-> r.voices,
                       files |-> RemoveFile(r.files, out),
                       resp |-> IF r.outcome = "ok"
                                THEN LET wave == SfRead(r.files, Get(r.audio_path))
                                     IN  [made EXCEPT
                                              !.sample_rate = wave.rate,
                                              !.duration = Some(Duration(wave)),
                                              !.voice_id = c.voice_id,
                                              !.audio = r.audio]
                                ELSE [made EXCEPT !.error = TRUE]]))

\* handler: the dispatch on job_input.get("operation", "synthesize"), as a
\* function of the voice store, the files and the job input
HandleJob(v, fs, operation, text, voice, audio_url, content, voice_id, speed, out, fault, lens) ==
    LET op == IF IsNone(operation) THEN "synthesize" ELSE Get(operation)
    IN  IF op = "synthesize"
        THEN HandleSynthesize(v, fs, text, voice, speed, out, fault, lens)
        ELSE IF op = "clone"
        THEN HandleClone(v, fs, audio_url, content, voice_id)
        ELSE IF op = "synthesize_with_clone"
        THEN HandleSynthesizeWithClone(v, fs, text, audio_url, content, speed, out,
                                       fault, lens)
        ELSE IF op = "list_voices"
        THEN [voices |-> v, files |-> fs,
              resp |-> [Answer("runpod", "list_voices") EXCEPT
                            !.calls = <<EngineCall("list_voices", kokoro_tts_engine)>>]]
        ELSE [voices |-> v, files |-> fs,
              resp |-> [Answer("runpod", "unknown") EXCEPT !.error = TRUE]]

\* one job served by the worker
Handler(operation, text, voice, audio_url, content, voice_id, speed, out, fault, lens) ==
    LET op == IF IsNone(operation) THEN "synthesize" ELSE Get(operation)
    IN  \* arguments an operation does not read, or does not get to read
        \* before it returns or raises, are left at their defaults
        /\ op \notin {"synthesize", "synthesize_with_clone"}
               => text = <<>> /\ speed = "1.0"
        /\ ~IsFloat(speed) => text = <<>> /\ IsNone(audio_url)
        /\ op # "synthesize" \/ text = <<>> => voice = af_heart
        /\ op \notin {"clone", "synthesize_with_clone"} => IsNone(audio_url)
        /\ op # "clone" => IsNone(voice_id)
        /\ IsNone(audio_url) => content = "missing"
        /\ (text = <<>> \/ (op = "synthesize_with_clone" /\ content \notin Contents))
               => fault = "none" /\ lens = <<>>
        /\ fault # "none" => lens = <<>>
        /\ \E r \in {HandleJob(voices, files, operation, text, voice, audio_url,
                                content, voice_id, speed, out, fault, lens)} :
               /\ Cardinality(DOMAIN r.voices) <= MaxDirs
               /\ voices' = r.voices
               /\ files' = r.files
               /\ resp' = r.resp
        /\ UNCHANGED <<engine, last, promoted, recloned, lastDefault, returned, raceVars>>

\* the worker serves one job after another
NextRunPod ==
    \/ \E operation \in {None, Some("synthesize")}, text \in Texts, voice \in Voices,
          speed \in Speeds, out \in Candidates("voice_ai"),
          fault \in {"none", "generation"}, lens \in ChunkLists :
           Handler(operation, text, voice, None, "missing", None, speed, out,
                   fault, lens)
    \/ \E audio_url \in {None} \cup {Some(x) : x \in AudioPaths},
          voice_id \in {None} \cup {Some(x) : x \in VoiceIds} :
           \E content \in IF IsNone(audio_url) THEN {"missing"}
                          ELSE FileKinds(Get(audio_url)) :
               Handler(Some("clone"), <<>>, af_heart, audio_url, content, voice_id,
                       "1.0", Candidate("voice_ai", 1), "none", <<>>)
    \/ \E text \in Texts, audio_url \in {None} \cup {Some(x) : x \in AudioPaths},
          speed \in Speeds, out \in Candidates("voice_ai"),
          fault \in {"none", "generation"}, lens \in ChunkLists :
           \E content \in IF IsNone(audio_url) THEN {"missing"}
                          ELSE FileKinds(Get(audio_url)) :
               Handler(Some("synthesize_with_clone"), text, af_heart, audio_url,
                       content, None, speed, out, fault, lens)
    \/ \E operation \in {Some("list_voices"), Some("delete")} :
           Handler(operation, <<>>, af_heart, None, "missing", None, "1.0",
                   Candidate("voice_ai", 1), "none", <<>>)

SpecRunPod == Init /\ [][NextRunPod]_vars

(***************************************************************************)
(* C12: for a non-empty text that makes the pipeline yield audio and a     *)
(* preset voice, Kokoro synthesize writes a waveform of more than zero     *)
(* samples at sample rate 24000, and the RunPod synthesize response        *)
(* reports sample_rate 24000 and the duration samples / sample_rate > 0.   *)
(***************************************************************************)
C12_KokoroWaveformAndRunPodReport ==
    (/\ resp.surface = "runpod" /\ resp.op = "synthesize" /\ resp.raised = ""
     /\ resp.text # <<>> /\ resp.lens # <<>> /\ resp.fault = "none"
     /\ \E i \in DOMAIN KokoroPresets : KokoroPresets[i] = Get(resp.voice))
        => /\ ~resp.error
           /\ IsSome(resp.audio)
           /\ Len(Get(resp.audio).samples) > 0
           /\ Get(resp.audio).rate = 24000
           /\ resp.sample_rate = 24000
           /\ resp.duration = Some(<<Len(Get(resp.audio).samples), 24000>>)
           /\ resp.calls[1].model_type = kokoro

\* a synthesize job with a preset voice was answered with the duration of
\* three samples written from two segments
C12_Witness ==
    /\ resp.surface = "runpod" /\ resp.op = "synthesize" /\ ~resp.error
    /\ resp.voice = Some(af_heart)
    /\ Len(resp.lens) = 2
    /\ resp.sample_rate = 24000
    /\ resp.duration = Some(<<3, 24000>>)


(***************************************************************************)
(* C14: the RunPod handler never raises: for every job input and every     *)
(* operation handler returns a dictionary, and when the download, the      *)
(* clone or the synthesis failed that dictionary carries an 'error' field. *)
(***************************************************************************)
\* the job's download, clone or synthesis failed: no audio and no voice id
\* came back from an operation that is to produce one
JobFailed ==
    /\ resp.op \in {"synthesize", "clone", "synthesize_with_clone"}
    /\ IsNone(resp.audio)
    /\ IsNone(resp.voice_id)

C14_HandlerNeverRaises ==
    resp.surface = "runpod"
        => /\ resp.raised = ""
           /\ JobFailed => resp.error


(***************************************************************************)
(* The FastAPI endpoints (src/api.py); kokoro_agent and zonos_agent were   *)
(* created when the module was loaded                                      *)
(***************************************************************************)
\* the agent an endpoint selects: model_type is compared as it was sent
ApiAgent(model_type) ==
    IF model_type = kokoro THEN Some(kokoro_tts_engine)
    ELSE IF model_type = zonos THEN Some(zonos_tts_engine)
    ELSE None

\* the path the uploaded sample is saved at, TEMP_DIR / <candidate name><ext>
temp_audio == <<"t","e","m","p","/","u","p",".","w","a","v">>

\* what an upload may hold: bytes that do not decode, or a recording
Uploads == {"bad"} \cup Contents

\* GET /voices
ApiListVoices(v, fs, model_type) ==
    LET answer == [Answer("api", "voices") EXCEPT !.model_type = Some(model_type)]
        agent == ApiAgent(model_type)
    IN  [voices |-> v, files |-> fs,
         resp |-> IF IsSome(agent)
                  THEN [answer EXCEPT !.status = 200,
                                      !.calls = <<EngineCall("list_voices", Get(agent))>>]
                  ELSE [answer EXCEPT !.status = 400]]

\* POST /synthesize: the HTTPException(400) is raised inside the try block
\* and caught by its except clause; nothing removes output_file
ApiSynthesize(v, fs, model_type, text, voice, reference_audio, content, out, fault, lens) ==
    LET answer == [Answer("api", "synthesize") EXCEPT
                       !.model_type = Some(model_type), !.created = Some(out),
                       !.reference_audio = reference_audio]
        agent == ApiAgent(model_type)
    IN  IF IsNone(agent)
        THEN [voices |-> v, files |-> fs, resp |-> [answer EXCEPT !.status = 500]]
        ELSE LET params == [ChainInputs EXCEPT !.text = text,
                                               !.output_path = Some(out)]
                 inputs == IF model_type = kokoro
                           THEN [params EXCEPT !.voice_id = Some(voice)]
                           ELSE [params EXCEPT !.reference_audio = reference_audio]
                 r == VoiceChain(Get(agent), v, fs, inputs, content, fault, lens)
             IN  [voices |-> r.voices, files |-> r.files,
                  resp |-> [answer EXCEPT
                                !.calls = <<r.call>>,
                                !.status = IF r.outcome = "ok" THEN 200 ELSE 500]]

\* POST /clone: the upload is saved, cloned through the chain and removed
ApiClone(v, fs, model_type, content, voice_id, make_default, modelOk) ==
    LET answer == [Answer("api", "clone") EXCEPT
                       !.model_type = Some(model_type), !.make_default = make_default]
        agent == ApiAgent(model_type)
    IN  IF IsNone(agent)
        THEN [voices |-> v, files |-> fs, resp |-> [answer EXCEPT !.status = 500]]
        ELSE LET r == VoiceCloningChain(Get(agent), v,
                                        [ChainInputs EXCEPT
                                             !.audio_path = Some(temp_audio),
                                             !.voice_id = voice_id,
                                             !.make_default = make_default],
                                        content, modelOk)
             IN  [voices |-> r.voices, files |-> fs,
                  resp |-> [answer EXCEPT
                                !.calls = <<r.call>>, !.voice_id = r.voice_id,
                                !.status = IF r.outcome = "ok" THEN 200 ELSE 500]]

\* POST /synthesize-with-clone: only temp_audio is removed at the end
ApiSynthesizeWithClone(v, fs, model_type, text, content, make_default, out, fault, lens, modelOk) ==
    LET answer == [Answer("api", "synthesize_with_clone") EXCEPT
                       !.model_type = Some(model_type), !.created = Some(out),
                       !.make_default = make_default,
                       !.reference_audio = Some(temp_audio)]
        agent == ApiAgent(model_type)
    IN  IF IsNone(agent)
        THEN [voices |-> v, files |-> fs, resp |-> [answer EXCEPT !.status = 500]]
        ELSE LET c == VoiceCloningChain(Get(agent), v,
                                        [ChainInputs EXCEPT
                                             !.audio_path = Some(temp_audio),
                                             !.make_default =
                                                 (model_type = zonos /\ make_default)],
                                        content, modelOk)
             IN  IF c.outcome # "ok"
                 THEN [voices |-> c.voices, files |-> fs,
                       resp |-> [answer EXCEPT !.calls = <<c.call>>, !.status = 500]]
                 ELSE LET params == [ChainInputs EXCEPT !.text = text,
                                                        !.output_path = Some(out)]
                          inputs == IF model_type = kokoro
                                    THEN [params EXCEPT !.voice_id = c.voice_id]
                                    ELSE [params EXCEPT
                                              !.reference_audio = Some(temp_audio)]
                          r == VoiceChain(Get(agent), c.voices, fs, inputs, content,
                                          fault, lens)
                      IN  [voices |-> r.voices, files |-> r.files,
                           resp |-> [answer EXCEPT
                                         !.calls = <<c.call, r.call>>,
                                         !.voice_id = c.voice_id,
                                         !.status = IF r.outcome = "ok" THEN 200
                                                    ELSE 500]]

\* one request to the API
Api(endpoint, model_type, text, voice, reference_audio, content, voice_id, make_default, out, fault, lens, modelOk) ==
    LET cloning == endpoint \in {"clone", "synthesize_with_clone"}
        speaking == endpoint \in {"synthesize", "synthesize_with_clone"}
    IN  \* arguments an endpoint does not take, or does not get to read, are
        \* left at their defaults
        /\ (~speaking \/ IsNone(ApiAgent(model_type)))
               => text = <<>> /\ fault = "none" /\ lens = <<>>
        /\ speaking /\ IsSome(ApiAgent(model_type)) => text = hello
        /\ (endpoint # "synthesize" \/ model_type # kokoro) => voice = af_heart
        /\ (endpoint # "synthesize" \/ model_type # zonos) => IsNone(reference_audio)
        /\ (~cloning \/ IsNone(ApiAgent(model_type)))
               => ~make_default /\ content = "missing"
        /\ cloning /\ IsSome(ApiAgent(model_type)) => content \in Uploads
        /\ ~modelOk => cloning /\ model_type = zonos /\ content \in Contents
        /\ (endpoint # "clone" \/ IsNone(ApiAgent(model_type))) => IsNone(voice_id)
        /\ (model_type = zonos \/ (cloning /\ content \notin Contents))
               => lens = <<>>
        /\ (cloning /\ content \notin Contents) => fault = "none"
        /\ \E r \in {IF endpoint = "voices"
                      THEN ApiListVoices(voices, files, model_type)
                      ELSE IF endpoint = "synthesize"
                      THEN ApiSynthesize(voices, files, model_type, text, voice,
                                         reference_audio, content, out, fault, lens)
                      ELSE IF endpoint = "clone"
                      THEN ApiClone(voices, files, model_type, content, voice_id,
                                    make_default, modelOk)
                      ELSE ApiSynthesizeWithClone(voices, files, model_type, text,
                                                  content, make_default, out, fault,
                                                  lens, modelOk)} :
               /\ Cardinality(DOMAIN r.voices) <= MaxDirs
               /\ voices' = r.voices
               /\ files' = r.files
               /\ resp' = r.resp
        /\ UNCHANGED <<engine, last, promoted, recloned, lastDefault, returned, raceVars>>

\* model_type values a client sends
ApiModelTypes == {kokoro, zonos, <<"K","o","k","o","r","o">>}

\* the server answers one request after another
NextApi ==
    \/ \E model_type \in ApiModelTypes :
           Api("voices", model_type, <<>>, af_heart, None, "missing", None, FALSE,
               Candidate("temp", 1), "none", <<>>, TRUE)
    \/ \E model_type \in ApiModelTypes, text \in Texts,
          reference_audio \in {None, Some(default_wav)},
          out \in Candidates("temp"), fault \in {"none", "generation"},
          lens \in {<<>>, <<1>>} :
           Api("synthesize", model_type, text, af_heart, reference_audio, "missing",
               None, FALSE, out, fault, lens, TRUE)
    \/ \E model_type \in ApiModelTypes, content \in {"missing", "bad", "B"},
          voice_id \in {None, Some(zonos_default)}, make_default \in BOOLEAN,
          modelOk \in BOOLEAN :
           Api("clone", model_type, <<>>, af_heart, None, content, voice_id,
               make_default, Candidate("temp", 1), "none", <<>>, modelOk)
    \/ \E model_type \in ApiModelTypes, text \in Texts,
          content \in {"missing", "bad", "B"}, make_default \in BOOLEAN,
          out \in Candidates("temp"), lens \in {<<>>, <<1>>} :
           Api("synthesize_with_clone", model_type, text, af_heart, None, content,
               None, make_default, out, "none", lens, TRUE)

SpecApi == Init /\ [][NextApi]_vars


(***************************************************************************)
(* C13: after a request surface has finished handling a synthesis request, *)
(* whether it succeeded or failed, the temporary output file the surface   *)
(* created for the request no longer exists.                               *)
(***************************************************************************)
C13_OutputFileRemoved ==
    (/\ resp.surface \in {"api", "runpod"}
     /\ resp.op \in {"synthesize", "synthesize_with_clone"}
     /\ IsSome(resp.created))
        => Get(resp.created) \notin DOMAIN files

(***************************************************************************)
(* C18: a Zonos synthesis request that carries a reference_audio and is    *)
(* issued through the voice chain results in the engine's synthesize being *)
(* called with that reference_audio.                                       *)
(***************************************************************************)
\* the synthesize call of the request, if the request got as far as one
SynthesizeCalls ==
    {i \in DOMAIN resp.calls : resp.calls[i].fn = "synthesize"}

C18_ReferenceAudioReachesEngine ==
    (/\ resp.surface \in {"api", "cli"}
     /\ resp.model_type = Some(zonos)
     /\ IsSome(resp.reference_audio))
        => \A i \in SynthesizeCalls :
               resp.calls[i].reference_audio = resp.reference_audio

(***************************************************************************)
(* C19: every FastAPI endpoint that takes a model_type answers a request   *)
(* whose model_type is neither 'kokoro' nor 'zonos' with HTTP status 400   *)
(* and never invokes an engine for it.                                     *)
(***************************************************************************)
C19_UnsupportedModelTypeIs400 ==
    (/\ resp.surface = "api"
     /\ resp.model_type \notin {Some(kokoro), Some(zonos)})
        => /\ resp.status = 400
           /\ resp.calls = <<>>


(***************************************************************************)
(* The command line (src/cli.py): one run of main()                        *)
(***************************************************************************)
\* main(): the agent is created for --model; an exception that leaves main
\* ends the process with a traceback and exit status 1
Main(v, fs, model, load, list_voices, clone_from, content, voice_id, make_default, reference_audio, refContent, text, voice, output, fault, lens, modelOk) ==
    LET answer == [Answer("cli", IF list_voices THEN "list_voices"
                                 ELSE IF IsSome(clone_from) THEN "clone_and_synthesize"
                                 ELSE "synthesize") EXCEPT
                       !.model_type = Some(model), !.make_default = make_default,
                       !.reference_audio = reference_audio]
        tts_engine == IF model = kokoro THEN kokoro_tts_engine ELSE zonos_tts_engine
        unchanged == [voices |-> v, files |-> fs]
    IN  IF load # "ok"
        THEN unchanged @@ [resp |-> [answer EXCEPT !.raised = load, !.status = 1]]
        ELSE IF list_voices
        THEN unchanged @@
             [resp |-> [answer EXCEPT
                            !.calls = <<EngineCall("list_voices", tts_engine)>>]]
        ELSE IF IsSome(clone_from) /\ content = "missing"
        THEN unchanged @@ [resp |-> [answer EXCEPT !.status = 1]]
        ELSE LET c == IF IsSome(clone_from)
                      THEN VoiceCloningChain(tts_engine, v,
                                             [ChainInputs EXCEPT
                                                  !.audio_path = clone_from,
                                                  !.voice_id = voice_id,
                                                  !.make_default = make_default],
                                             content, modelOk)
                      ELSE [voices |-> v, outcome |-> "ok", voice_id |-> None,
                            call |-> EngineCall("none", tts_engine)]
                 cloned == IF IsSome(clone_from) THEN <<c.call>> ELSE <<>>
                 \* the reference audio of a Zonos run; after a clone it is
                 \* the sample the voice was cloned from
                 reference == IF model = zonos
                              THEN IF IsSome(clone_from) THEN clone_from
                                   ELSE reference_audio
                              ELSE None
                 found == IF model = zonos /\ IsSome(clone_from) THEN content
                          ELSE refContent
             IN  IF c.outcome # "ok"
                 THEN [voices |-> c.voices, files |-> fs,
                       resp |-> [answer EXCEPT !.calls = cloned,
                                               !.raised = c.outcome, !.status = 1]]
                 ELSE IF text = <<>>
                 THEN [voices |-> c.voices, files |-> fs,
                       resp |-> [answer EXCEPT !.calls = cloned, !.status = 1,
                                               !.voice_id = c.voice_id]]
                 ELSE LET params == [ChainInputs EXCEPT !.text = text,
                                                        !.output_path = Some(output)]
                          inputs ==
                              IF model = kokoro
                              THEN [params EXCEPT
                                        !.voice_id = IF IsSome(clone_from) THEN c.voice_id
                                                     ELSE Some(voice)]
                              ELSE [params EXCEPT !.reference_audio = reference]
                          r == VoiceChain(tts_engine, c.voices, fs, inputs, found,
                                          fault, lens)
                      IN  [voices |-> r.voices, files |-> r.files,
                           resp |-> [answer EXCEPT
                                         !.calls = cloned \o <<r.call>>,
                                         !.reference_audio = reference,
                                         !.voice_id = c.voice_id,
                                         !.raised = IF r.outcome = "ok" THEN ""
                                                    ELSE r.outcome,
                                         !.status = IF r.outcome = "ok" THEN 0 ELSE 1]]

\* one run of the command line; --output is required by the parser
Cli(model, load, list_voices, clone_from, content, voice_id, make_default, reference_audio, refContent, text, voice, fault, lens, modelOk) ==
    \* options a run does not read, or does not get to read, are left at
    \* their defaults
    /\ (load # "ok" \/ list_voices)
           => /\ IsNone(clone_from) /\ IsNone(reference_audio)
              /\ text = <<>> /\ ~(load # "ok" /\ list_voices)
    /\ IsNone(clone_from) => IsNone(voice_id) /\ ~make_default /\ content = "missing"
    /\ IsSome(clone_from) => content \in FileKinds(Get(clone_from))
    /\ content = "missing" /\ IsSome(clone_from)
           => IsNone(voice_id) /\ ~make_default /\ text = <<>>
    /\ ~modelOk => IsSome(clone_from) /\ model = zonos /\ content \in Contents
    /\ (content = "bad" \/ ~modelOk) => text = <<>>
    /\ (model = kokoro \/ IsSome(clone_from)) => IsNone(reference_audio)
    /\ refContent \in IF IsSome(reference_audio)
                      THEN FileKinds(Get(reference_audio)) ELSE {"missing"}
    /\ text = <<>> => fault = "none" /\ lens = <<>> /\ IsNone(reference_audio)
    /\ model = zonos => lens = <<>>
    /\ \E r \in {Main(voices, files, model, load, list_voices, clone_from, content,
                       voice_id, make_default, reference_audio, refContent, text,
                       voice, out_wav, fault, lens, modelOk)} :
           /\ Cardinality(DOMAIN r.voices) <= MaxDirs
           /\ voices' = r.voices
           /\ files' = r.files
           /\ resp' = r.resp
    /\ UNCHANGED <<engine, last, promoted, recloned, lastDefault, returned, raceVars>>

\* one run of the program after another on the same voices directory
NextCli ==
    \/ \E model \in {kokoro, zonos}, load \in {"ok", "InitError"},
          list_voices \in BOOLEAN :
           Cli(model, load, list_voices, None, "missing", None, FALSE, None,
               "missing", <<>>, af_heart, "none", <<>>, TRUE)
    \/ \E model \in {kokoro, zonos}, clone_from \in {Some(x) : x \in AudioPaths},
          content \in {"missing", "bad"} \cup Contents,
          voice_id \in {None, Some(zonos_bob)}, make_default \in BOOLEAN,
          text \in Texts, lens \in {<<>>, <<1>>}, modelOk \in BOOLEAN :
           Cli(model, "ok", FALSE, clone_from, content, voice_id, make_default,
               None, "missing", text, af_heart, "none", lens, modelOk)
    \/ \E model \in {kokoro, zonos},
          reference_audio \in {None, Some(default_wav)},
          refContent \in {"missing", "bad"} \cup Contents,
          text \in {hello}, voice \in Voices,
          fault \in {"none", "generation"}, lens \in {<<>>, <<1>>} :
           Cli(model, "ok", FALSE, None, "missing", None, FALSE, reference_audio,
               refContent, text, voice, fault, lens, TRUE)

SpecCli == Init /\ [][NextCli]_vars

(***************************************************************************)
(* C17: a Zonos clone request with make_default=true issued through the    *)
(* cloning chain reaches the engine with make_default=true, so that        *)
(* afterwards the default voice exists and equals the cloned embedding.    *)
(***************************************************************************)
\* the clone_voice calls of the request
CloneCalls ==
    {i \in DOMAIN resp.calls : resp.calls[i].fn = "clone_voice"}

C17_MakeDefaultReachesEngine ==
    (/\ resp.surface \in {"api", "cli"}
     /\ resp.model_type = Some(zonos)
     /\ resp.make_default
     /\ IsSome(resp.voice_id))
        => /\ \A i \in CloneCalls : resp.calls[i].make_default
           /\ IsSome(DefaultSlot(voices))
           /\ DefaultSlot(voices) = voices[Get(resp.voice_id)].emb


(***************************************************************************)
(* Clone operations of several processes on one voices directory           *)
(* (_clone_voice_zonos, statement by statement); no lock is taken          *)
(***************************************************************************)
\* the files of the voice store a Zonos clone writes
EmbeddingFile(id) == <<id, "speaker_embedding.pt">>
SampleFile(id) == <<id, "sample.wav">>

\* the record of who wrote a file last
Wrote(w, file, p) == [f \in DOMAIN w \cup {file} |-> IF f = file THEN p ELSE w[f]]

\* torch.save(speaker_embedding, embedding_path), after voice_dir.mkdir
SaveEmbeddingFile(v, id, content) ==
    [Mkdir(v, id) EXCEPT ![id].emb = Some(MakeSpeakerEmbedding(content))]

\* a sample export that leaves a sample.wav that is already there
ExportSampleKeepsFile(v, id, content) ==
    IF IsSome(v[id].sample) THEN v
    ELSE [v EXCEPT ![id].sample = Some(ZonosSample(content))]

\* sample.export(sample_path, format="wav")
ExportSampleFile(v, id, content) ==
    [v EXCEPT ![id].sample = Some(ZonosSample(content))]

\* clone_voice is entered: the existence check, the derived voice id, the
\* decoding of the sample and the embedding, all in the process's memory
BeginClone(p, audio_path, content, voice_id, make_default, modelOk) ==
    /\ clones[p].pc = "idle"
    /\ clones' = [clones EXCEPT ![p] =
                      [pc |-> IF content \in Contents /\ modelOk
                              THEN "save_embedding" ELSE "raised",
                       voice_id |-> Some(IF IsNone(voice_id)
                                         THEN DerivedVoiceId(zonos_prefix, audio_path)
                                         ELSE Get(voice_id)),
                       content |-> content,
                       make_default |-> make_default]]
    /\ UNCHANGED <<engine, voices, last, promoted, recloned, lastDefault,
                   requestVars, writer>>

\* the embedding is saved
SaveEmbedding(p) ==
    LET id == Get(clones[p].voice_id)
    IN  /\ clones[p].pc = "save_embedding"
        /\ voices' = SaveEmbeddingFile(voices, id, clones[p].content)
        /\ writer' = Wrote(writer, EmbeddingFile(id), p)
        /\ clones' = [clones EXCEPT ![p].pc = "export_sample"]
        /\ UNCHANGED <<engine, last, promoted, recloned, lastDefault, requestVars>>

\* the copy of the sample is exported
ExportSample(p) ==
    LET id == Get(clones[p].voice_id)
    IN  /\ clones[p].pc = "export_sample"
        /\ voices' = ExportSampleFile(voices, id, clones[p].content)
        /\ writer' = Wrote(writer, SampleFile(id), p)
        /\ clones' = [clones EXCEPT ![p].pc = IF clones[p].make_default
                                              THEN "save_default" ELSE "returned"]
        /\ UNCHANGED <<engine, last, promoted, recloned, lastDefault, requestVars>>

\* the embedding is saved a second time, as the default voice
SaveDefault(p) ==
    /\ clones[p].pc = "save_default"
    /\ voices' = SetDefault(voices, TRUE, MakeSpeakerEmbedding(clones[p].content))
    /\ writer' = Wrote(writer, EmbeddingFile(zonos_default), p)
    /\ clones' = [clones EXCEPT ![p].pc = "returned"]
    /\ UNCHANGED <<engine, last, promoted, recloned, lastDefault, requestVars>>

\* each process clones once; its statements interleave with the other's
NextRace ==
    \/ \E p \in Clones, audio_path \in AudioPaths,
          voice_id \in {None, Some(zonos_bob)}, make_default \in BOOLEAN,
          modelOk \in BOOLEAN :
           \E content \in FileKinds(audio_path) :
               BeginClone(p, audio_path, content, voice_id, make_default, modelOk)
    \/ \E p \in Clones : SaveEmbedding(p)
    \/ \E p \in Clones : ExportSample(p)
    \/ \E p \in Clones : SaveDefault(p)

SpecRace == Init /\ [][NextRace]_vars

\* two clone operations on the same voice_id have both completed
BothCompleted(id) ==
    \A p \in Clones : clones[p].pc = "returned" /\ clones[p].voice_id = Some(id)

\* the record of id is entirely what process p wrote
RecordOf(id, p) ==
    /\ voices[id].emb = Some(MakeSpeakerEmbedding(clones[p].content))
    /\ voices[id].sample = Some(ZonosSample(clones[p].content))
    /\ clones[p].make_default
           => DefaultSlot(voices) = Some(MakeSpeakerEmbedding(clones[p].content))

(***************************************************************************)
(* C16 as stated: once two concurrent clone operations on the same         *)
(* voice_id have both completed, the stored record for that voice_id (its  *)
(* embedding file, its sample file and, if make_default was requested, the *)
(* default slot) consists entirely of the data written by one single       *)
(* operation, the one that wrote last.                                     *)
(***************************************************************************)
C16_RecordFromOneOperation ==
    \A id \in VoiceIds \cup {zonos_default} :
        BothCompleted(id)
            => \E p \in Clones :
                   /\ writer[SampleFile(id)] = p
                   /\ RecordOf(id, p)

(***************************************************************************)
(* C16 as the code has it: last-write-wins holds for each file on its own. *)
(* Once both operations have completed, the embedding file, the sample     *)
(* file and the default slot each hold the data of the operation that      *)
(* wrote that file last, and these need not be the same operation.         *)
(***************************************************************************)
C16_LastWriteWinsPerFile ==
    \A id \in VoiceIds \cup {zonos_default} :
        BothCompleted(id)
            => /\ voices[id].emb =
                      Some(MakeSpeakerEmbedding(clones[writer[EmbeddingFile(id)]].content))
               /\ voices[id].sample =
                      Some(ZonosSample(clones[writer[SampleFile(id)]].content))
               /\ EmbeddingFile(zonos_default) \in DOMAIN writer
                      => DefaultSlot(voices) =
                             Some(MakeSpeakerEmbedding(
                                      clones[writer[EmbeddingFile(zonos_default)]].content))

\* both operations have completed and the record holds the embedding of one
\* with the sample of the other
C16_Witness ==
    /\ BothCompleted(zonos_bob)
    /\ clones[1].content # clones[2].content
    /\ writer[EmbeddingFile(zonos_bob)] # writer[SampleFile(zonos_bob)]
    /\ voices[zonos_bob].emb = Some(MakeSpeakerEmbedding("A"))
    /\ voices[zonos_bob].sample = Some(ZonosSample("B"))


(***************************************************************************)
(* C21: the RunPod handler dispatches each job to exactly one operation by *)
(* its 'operation' field: a missing field is treated as 'synthesize', an   *)
(* unknown value returns an 'Unknown operation' error without invoking the *)
(* engine, and a synthesize or synthesize_with_clone job with empty text   *)
(* (or a clone job with no audio_url) returns an error without invoking    *)
(* the engine or creating any file.                                        *)
(***************************************************************************)
\* the answer r is an error that was returned, no engine call was made and
\* the voice store and the files are as they were
Refused(r) ==
    /\ r.resp.raised = ""
    /\ r.resp.error
    /\ r.resp.calls = <<>>
    /\ r.files = files
    /\ r.voices = voices

C21_DispatchByOperation ==
    \A text \in Texts, speed \in Speeds, audio_url \in {None, Some(default_wav)},
       out \in Candidates("voice_ai") :
        LET content == IF IsNone(audio_url) THEN "missing" ELSE Recording(default_wav)
            lens == IF text = <<>> THEN <<>> ELSE <<1>>
            job(operation) ==
                HandleJob(voices, files, operation, text, af_heart, audio_url,
                          content, None, speed, out, "none", lens)
        IN  /\ job(None) = job(Some("synthesize"))
            /\ \A op \in {"synthesize", "clone", "synthesize_with_clone",
                          "list_voices"} : job(Some(op)).resp.op = op
            /\ job(Some("delete")).resp.op = "unknown"
            /\ Refused(job(Some("delete")))
            /\ text = <<>> => /\ Refused(job(Some("synthesize")))
                              /\ Refused(job(Some("synthesize_with_clone")))
            /\ IsNone(audio_url) => Refused(job(Some("clone")))


(***************************************************************************)
(* C22: a clone_voice call that fails (audio file missing, sample          *)
(* undecodable, or embedding extraction failing) leaves the voice store    *)
(* unchanged: list_voices() returns the same preset and cloned lists after *)
(* the failed call as before it, for both Kokoro and Zonos.                *)
(***************************************************************************)
\* the step is a clone_voice call of the engine that raised
FailedClone(l) == IsClone(l) /\ l.outcome # "ok"

C22_FailedCloneChangesNothing ==
    [][(IsSome(engine) /\ engine' = engine /\ FailedClone(last'))
          => /\ voices' = voices
             /\ ListVoices(Get(engine), voices') = ListVoices(Get(engine), voices)]_vars


(***************************************************************************)
(* C23: when a Kokoro engine and a Zonos engine share one voices           *)
(* directory, the two namespaces stay disjoint after any sequence of clone *)
(* and synthesize operations with any voice_id: a voice created through    *)
(* the Kokoro engine never appears in the Zonos engine's list_voices and a *)
(* voice created through the Zonos engine never appears in the Kokoro      *)
(* engine's list_voices.                                                   *)
(***************************************************************************)
\* the step is a successful clone_voice that made a voice that was not there
CreatedVoice(v, l) ==
    /\ ClonedOk(l)
    /\ Get(l.ret_id) \notin DOMAIN v

C23_NamespacesDisjoint ==
    [][(IsSome(engine) /\ engine' = engine /\ CreatedVoice(voices, last'))
          => LET id == Get(last'.ret_id)
             IN  /\ last'.adapter = "kokoro"
                        => id \notin ListVoices(zonos_tts_engine, voices').cloned
                 /\ last'.adapter = "zonos"
                        => id \notin ListVoices(kokoro_tts_engine, voices').cloned]_vars


(***************************************************************************)
(* C24: in a Zonos engine's list_voices result every voice identity is     *)
(* reported once: the default-voice slot is reported only as the preset    *)
(* entry 'default' and the sentinel 'zonos_default' never appears in the   *)
(* 'cloned' list, in any state reachable by clone operations with          *)
(* make_default=true.                                                      *)
(***************************************************************************)
C24_DefaultReportedOnce ==
    (IsSome(engine) /\ Adapter(Get(engine)) = "zonos" /\ promoted)
        => LET listed == ListVoices(Get(engine), voices)
           IN  /\ listed.preset = <<default_preset>>
               /\ zonos_default \notin listed.cloned

====
